---- MODULE Spec2Model ----
(***************************************************************************)
(* Solana-Pay-UI: the payment session (PaymentProvider.tsx), the retry     *)
(* combinator exponentialBackoff and the two polling loops of the          *)
(* transactions provider.                                                  *)
(***************************************************************************)
EXTENDS Integers, Sequences, FiniteSets, TLC

VARIABLES
    \* ---- PaymentProvider
    amount,      \* useState amount: NoAmount (undefined) or a number
    memo,        \* useState memo: "none" (undefined) or a string
    reference,   \* useState reference: NoKey (undefined) or a minted key
    status,      \* useState status: "New" | "Pending" | "Confirmed"
    mounted,     \* the provider is mounted
    interval,    \* key watched by the live setInterval timer, NoKey when cleared
    polls,       \* checkTransaction invocations in flight: per key, how many
                 \* await findReference and how many await getSignatureStatus
    nextKey,     \* next key Keypair.generate() mints
    ledger,      \* per key: confirmation level of the transaction carrying it
    glitches,    \* RPC failures / empty status answers the channel may still produce
    ev,          \* the last step taken: operation, the poll's key, fetched status
    \* ---- one exponentialBackoff call on its own
    bo,          \* the call: arguments, loop index i, where it is suspended, result
    boOutcomes,  \* outcome of each invocation of fn so far (TRUE: resolved)
    boSlept,     \* the delays awaited so far, in order
    \* ---- TransactionsProvider
    signatures,  \* useState signatures: the stored signature list
    sigId,       \* identity of the stored array (what React's Object.is compares)
    transactions,\* useState transactions: the published list (by signature)
    loading,     \* useState loading
    loops,       \* run() instances of the two polling effects that still have a
                 \* call in flight or a timer pending; identical instances merge
    tmounted,    \* the provider is mounted
    splToken,    \* useConfig: a token mint is configured
    associatedToken, \* useState associatedToken: NoToken (undefined) or the account
    deriving,    \* getAssociatedTokenAddress is pending and its effect is live
    chain,       \* the ledger's signatures, most recent first
    faults,      \* RPC failures and connection changes the environment may still
                 \* produce (Unlimited: any number of RPC failures)
    \* ---- Stage B's extraction of one transaction on its own
    xin,         \* the parsed transaction with its status, and the mode
    xdone,       \* the extraction has run
    xout         \* its result: <<>> (no record) or <<record>>

sessionVars == <<amount, memo, reference, status, mounted, interval, polls,
                 nextKey, ledger, glitches, ev>>
backoffVars == <<bo, boOutcomes, boSlept>>

reconVars == <<signatures, sigId, transactions, loading, loops, tmounted, splToken,
               associatedToken, deriving, chain, faults>>

extractVars == <<xin, xdone, xout>>

vars == <<sessionVars, backoffVars, reconVars, extractVars>>
notSession == <<backoffVars, reconVars, extractVars>>
notBackoff == <<sessionVars, reconVars, extractVars>>
notRecon == <<sessionVars, backoffVars, extractVars>>
notExtract == <<sessionVars, backoffVars, reconVars>>

-----------------------------------------------------------------------------
\* Bounds of the model
MaxKeys == 2
MaxPolls == 2
MaxGlitches == 1
MaxTries == 5
MaxSigs == 2
MaxStreak == 6
MaxLoops == 4
MaxFaults == 1

\* the delays the polling loops pass as initialDelay
BaseDelay == 1000
CapDelay == 30000
DelayValues == {1000, 2000, 4000, 8000, 16000, 30000}
\* attempts per exponentialBackoff call of the polling loops
LoopAttempts == 5
Unlimited == -1

\* undefined values of the useState cells
NoKey == 0
NoAmount == -1
NoMemo == "none"

Keys == 1..MaxKeys
Amounts == {NoAmount, 1}
Memos == {NoMemo, "memo"}
Levels == <<"absent", "processed", "confirmed", "finalized">>
LevelSet == {Levels[n] : n \in 1..Len(Levels)}

NoPolls == [k \in Keys |-> [find |-> 0, status |-> 0]]
RECURSIVE InFlightUpTo(_, _)
InFlightUpTo(p, k) == IF k = 0 THEN 0 ELSE p[k].find + p[k].status + InFlightUpTo(p, k - 1)
\* number of checkTransaction invocations that have not returned yet
InFlight(p) == InFlightUpTo(p, MaxKeys)
\* ev: the operation, the key of the poll that ran it, the confirmation status it
\* fetched, and the session status it found
Event(op, ref, tx) == [op |-> op, ref |-> ref, tx |-> tx, from |-> status, log |-> FALSE]

-----------------------------------------------------------------------------
\* exponentialBackoff(fn, maxRetries, initialDelay)

RECURSIVE Pow2(_)
Pow2(n) == IF n = 0 THEN 1 ELSE 2 * Pow2(n - 1)

Min(a, b) == IF a <= b THEN a ELSE b

\* delay(initialDelay * Math.pow(2, i))
RetryDelay(init, i) == init * Pow2(i)

\* the call is entered: the for loop either invokes fn (pc "fn") or, with no
\* attempt allowed, falls through to return false
BoStart(max, init) ==
    [max |-> max, init |-> init, i |-> 0,
     pc |-> IF 0 < max THEN "fn" ELSE "done", result |-> FALSE]

\* await fn() resolved: return true
BoResolve(c) == [c EXCEPT !.pc = "done", !.result = TRUE]

\* the catch clause gives up at i === maxRetries - 1
LastAttemptNever(c) == FALSE
LastAttempt(c) == c.i = c.max - 1

\* await fn() rejected: return false on the last attempt, else await delay(...)
BoReject(c) ==
    IF LastAttempt(c)
    THEN [c EXCEPT !.pc = "done", !.result = FALSE]
    ELSE [c EXCEPT !.pc = "sleep"]

\* the delay elapsed: i++, the loop condition holds, fn is invoked again
BoWake(c) == [c EXCEPT !.i = @ + 1, !.pc = IF c.i + 1 < c.max THEN "fn" ELSE "done"]

NoCall == [max |-> 0, init |-> 0, i |-> 0, pc |-> "idle", result |-> FALSE]

BackoffIdle ==
    /\ bo = NoCall
    /\ boOutcomes = <<>>
    /\ boSlept = <<>>

\* the arguments of a call not yet made
InitBackoff ==
    /\ \E max \in 0..MaxTries, init \in DelayValues :
          bo = [NoCall EXCEPT !.max = max, !.init = init]
    /\ boOutcomes = <<>>
    /\ boSlept = <<>>

BackoffCall ==
    /\ bo.pc = "idle"
    /\ bo' = BoStart(bo.max, bo.init)
    /\ UNCHANGED <<notBackoff, boOutcomes, boSlept>>

BackoffFnResolves ==
    /\ bo.pc = "fn"
    /\ bo' = BoResolve(bo)
    /\ boOutcomes' = Append(boOutcomes, TRUE)
    /\ UNCHANGED <<notBackoff, boSlept>>

BackoffFnRejects ==
    /\ bo.pc = "fn"
    /\ bo' = BoReject(bo)
    /\ boOutcomes' = Append(boOutcomes, FALSE)
    /\ boSlept' = IF bo'.pc = "sleep"
                  THEN Append(boSlept, RetryDelay(bo.init, bo.i))
                  ELSE boSlept
    /\ UNCHANGED notBackoff

BackoffWake ==
    /\ bo.pc = "sleep"
    /\ bo' = BoWake(bo)
    /\ UNCHANGED <<notBackoff, boOutcomes, boSlept>>

NextBackoff ==
    \/ BackoffCall
    \/ BackoffFnResolves
    \/ BackoffFnRejects
    \/ BackoffWake

-----------------------------------------------------------------------------
\* PaymentProvider

\* txStatus.value?.confirmationStatus === 'confirmed' || ... === 'finalized'
IsConfirmedLevelLax(cs) == cs \in {"processed", "confirmed", "finalized"}
IsConfirmedLevelStrict(cs) == cs = "finalized"
IsConfirmedLevel(cs) == cs \in {"confirmed", "finalized"}

\* if (status === PaymentStatus.New && !reference)
GenerateGuardOff == TRUE
GenerateGuard == status = "New" /\ reference = NoKey

\* the watcher effect: an interval exists exactly while Pending with a reference
WatchOf(st, ref) == IF st = "Pending" /\ ref # NoKey THEN ref ELSE NoKey

InitSession ==
    /\ amount = NoAmount
    /\ memo = NoMemo
    /\ reference = NoKey
    /\ status = "New"
    /\ mounted = TRUE
    /\ interval = NoKey
    /\ polls = NoPolls
    /\ nextKey = 1
    /\ ledger = [k \in Keys |-> "absent"]
    /\ glitches = MaxGlitches
    /\ ev = Event("init", NoKey, "none")

SessionIdle == InitSession

SetAmount(a) ==
    /\ mounted
    /\ amount' = a
    /\ ev' = Event("setAmount", NoKey, "none")
    /\ UNCHANGED <<notSession, memo, reference, status, mounted, interval, polls, nextKey,
                   ledger, glitches>>

SetMemo(m) ==
    /\ mounted
    /\ memo' = m
    /\ ev' = Event("setMemo", NoKey, "none")
    /\ UNCHANGED <<notSession, amount, reference, status, mounted, interval, polls, nextKey,
                   ledger, glitches>>

ResetKeepsMemo ==
    /\ mounted
    /\ amount' = NoAmount
    /\ memo' = memo
    /\ reference' = NoKey
    /\ status' = "New"
    /\ interval' = NoKey
    /\ ev' = Event("reset", NoKey, "none")
    /\ UNCHANGED <<notSession, mounted, polls, nextKey, ledger, glitches>>

\* reset(): the four setters, then the effect cleanup clears the interval
Reset ==
    /\ mounted
    /\ amount' = NoAmount
    /\ memo' = NoMemo
    /\ reference' = NoKey
    /\ status' = "New"
    /\ interval' = WatchOf(status', reference')
    /\ ev' = Event("reset", NoKey, "none")
    /\ UNCHANGED <<notSession, mounted, polls, nextKey, ledger, glitches>>

\* generate(): guarded; the effect then starts the interval for the new key
Generate ==
    /\ mounted
    /\ ev' = Event("generate", NoKey, "none")
    /\ IF GenerateGuard
       THEN /\ nextKey <= MaxKeys
            /\ reference' = nextKey
            /\ nextKey' = nextKey + 1
            /\ status' = "Pending"
            /\ interval' = WatchOf(status', reference')
       ELSE UNCHANGED <<reference, nextKey, status, interval>>
    /\ UNCHANGED <<notSession, amount, memo, mounted, polls, ledger, glitches>>

\* unmount: the effect cleanup clears the interval; the state cells are gone
Unmount ==
    /\ mounted
    /\ mounted' = FALSE
    /\ interval' = NoKey
    /\ ev' = Event("unmount", NoKey, "none")
    /\ UNCHANGED <<notSession, amount, memo, reference, status, polls, nextKey, ledger, glitches>>

\* the payer's transaction carrying key k moves up one confirmation level
LedgerAdvance(k) ==
    /\ k < nextKey
    /\ \E n \in 1..(Len(Levels) - 1) :
          /\ ledger[k] = Levels[n]
          /\ ledger' = [ledger EXCEPT ![k] = Levels[n + 1]]
    /\ ev' = Event("ledger", k, "none")
    /\ UNCHANGED <<notSession, amount, memo, reference, status, mounted, interval, polls,
                   nextKey, glitches>>

\* setInterval fires: checkTransaction starts and awaits findReference
Tick ==
    /\ interval # NoKey
    /\ InFlight(polls) < MaxPolls
    /\ polls' = [polls EXCEPT ![interval].find = @ + 1]
    /\ ev' = Event("tick", interval, "none")
    /\ UNCHANGED <<notSession, amount, memo, reference, status, mounted, interval, nextKey,
                   ledger, glitches>>

\* the catch clause: if (!(error instanceof FindReferenceError)) console.error(error)
LoggedAlways(err) == TRUE
Logged(err) == err # "FindReferenceError"

\* findReference throws FindReferenceError (nothing found): swallowed silently
FindNotFound(k) ==
    /\ polls[k].find > 0
    /\ ledger[k] = "absent"
    /\ polls' = [polls EXCEPT ![k].find = @ - 1]
    /\ ev' = [Event("notFound", k, "none") EXCEPT !.log = Logged("FindReferenceError")]
    /\ UNCHANGED <<notSession, amount, memo, reference, status, mounted, interval, nextKey,
                   ledger, glitches>>

\* findReference returns a signatureInfo: getSignatureStatus is awaited next
FindFound(k) ==
    /\ polls[k].find > 0
    /\ ledger[k] # "absent"
    /\ polls' = [polls EXCEPT ![k].find = @ - 1, ![k].status = @ + 1]
    /\ ev' = Event("found", k, "none")
    /\ UNCHANGED <<notSession, amount, memo, reference, status, mounted, interval, nextKey,
                   ledger, glitches>>

\* either RPC call throws another error: console.error, the poll ends
PollError(k, pc) ==
    /\ polls[k][pc] > 0
    /\ glitches > 0
    /\ glitches' = glitches - 1
    /\ polls' = [polls EXCEPT ![k][pc] = @ - 1]
    /\ ev' = [Event("error", k, "none") EXCEPT !.log = Logged("Error")]
    /\ UNCHANGED <<notSession, amount, memo, reference, status, mounted, interval, nextKey, ledger>>

\* what setStatus(Confirmed) commits: nothing on an unmounted component
AfterConfirm(cs) == IF mounted /\ IsConfirmedLevel(cs) THEN "Confirmed" ELSE status

\* getSignatureStatus returns; cs is the confirmationStatus of its value,
\* "none" when the value is null
StatusReturns(k, cs) ==
    /\ polls[k].status > 0
    /\ \/ cs = ledger[k]
       \/ cs = "none" /\ glitches > 0
    /\ glitches' = IF cs = "none" THEN glitches - 1 ELSE glitches
    /\ status' = AfterConfirm(cs)
    /\ interval' = IF mounted THEN WatchOf(status', reference) ELSE NoKey
    /\ polls' = [polls EXCEPT ![k].status = @ - 1]
    /\ ev' = Event("status", k, cs)
    /\ UNCHANGED <<notSession, amount, memo, reference, mounted, nextKey, ledger>>

NextSession ==
    \/ \E a \in Amounts : SetAmount(a)
    \/ \E m \in Memos : SetMemo(m)
    \/ Reset
    \/ Generate
    \/ Unmount
    \/ \E k \in Keys : LedgerAdvance(k)
    \/ Tick
    \/ \E k \in Keys : FindNotFound(k)
    \/ \E k \in Keys : FindFound(k)
    \/ \E k \in Keys, pc \in {"find", "status"} : PollError(k, pc)
    \/ \E k \in Keys, cs \in LevelSet \cup {"none"} : StatusReturns(k, cs)

\* the watcher reads neither amount nor memo: the liveness specification leaves
\* their setters out
NextWatch ==
    \/ Reset
    \/ Generate
    \/ Unmount
    \/ \E k \in Keys : LedgerAdvance(k)
    \/ Tick
    \/ \E k \in Keys : FindNotFound(k)
    \/ \E k \in Keys : FindFound(k)
    \/ \E k \in Keys, pc \in {"find", "status"} : PollError(k, pc)
    \/ \E k \in Keys, cs \in LevelSet \cup {"none"} : StatusReturns(k, cs)

-----------------------------------------------------------------------------
\* Stage B: the extraction of one transaction (the map callback)

LAMPORTS_PER_SOL == 1000000000
MAX_CONFIRMATIONS == 32
\* signatureStatus.confirmations === null
NoCount == -1
\* findIndex(...) === -1
NotFound == 0
\* a token balance entry without uiAmountString
NoUi == -1
\* no token balance entry for the account
Absent == -2

\* addresses: the recipient, its associated token account, anybody else
Recipient == "R"
Ata == "T"
Accounts == {Recipient, Ata, "X"}
\* associatedToken of a closure: undefined or the resolved account
NoToken == "none"

\* accountKeys.findIndex(({ pubkey }) => pubkey.equals(a))
FindIndex(keys, a) ==
    IF \E n \in 1..Len(keys) : keys[n] = a
    THEN CHOOSE n \in 1..Len(keys) : keys[n] = a /\ \A m \in 1..(n - 1) : keys[m] # a
    ELSE NotFound

\* preTokenBalances?.find((x) => x.accountIndex === accountIndex): <<>> or <<entry>>
FindBalance(bals, idx) ==
    IF \E n \in 1..Len(bals) : bals[n].accountIndex = idx
    THEN <<bals[CHOOSE n \in 1..Len(bals) :
                  bals[n].accountIndex = idx /\ \A m \in 1..(n - 1) : bals[m].accountIndex # idx]>>
    ELSE <<>>

\* status === 'finalized' ? MAX_CONFIRMATIONS : (signatureStatus.confirmations || 0)
ConfirmationsRaw(st, confs) == IF confs = NoCount THEN 0 ELSE confs
Confirmations(st, confs) ==
    IF st = "finalized" THEN MAX_CONFIRMATIONS
    ELSE IF confs = NoCount THEN 0 ELSE confs

\* if (postAmount.lt(preAmount)) return
IsNegativeNever(pre, post) == FALSE
IsNegative(pre, post) == post < pre

\* exclude self-transfers: info.source === <watched account>
IsSelfNever(src, watched) == FALSE
IsSelf(src, watched) == src = watched

\* the pre/post amounts of the watched account, <<>> when a guard returns;
\* amounts are num/den in display units
NativeAmounts(tx) ==
    IF ~(tx.program = "system" /\ tx.type = "transfer") THEN <<>>
    ELSE IF tx.dest # Recipient THEN <<>>
    ELSE IF IsSelf(tx.src, Recipient) THEN <<>>
    ELSE LET idx == FindIndex(tx.keys, Recipient) IN
         IF idx = NotFound THEN <<>>
         ELSE <<[pre |-> tx.preBalances[idx], post |-> tx.postBalances[idx],
                 den |-> LAMPORTS_PER_SOL]>>

TokenAmounts(tx, token) ==
    IF ~(tx.program = "spl-token" /\ tx.type \in {"transfer", "transferChecked"}) THEN <<>>
    ELSE IF tx.dest # token THEN <<>>
    ELSE IF IsSelf(tx.src, token) THEN <<>>
    ELSE LET idx == FindIndex(tx.keys, token) IN
         IF idx = NotFound THEN <<>>
         ELSE LET pre == FindBalance(tx.preTokenBalances, idx)
                  post == FindBalance(tx.postTokenBalances, idx) IN
              IF pre = <<>> \/ (pre # <<>> /\ pre[1].ui = NoUi) THEN <<>>
              ELSE IF post = <<>> \/ (post # <<>> /\ post[1].ui = NoUi) THEN <<>>
              ELSE <<[pre |-> pre[1].ui, post |-> post[1].ui, den |-> 1]>>

\* the map callback for signature sig: <<>> (undefined, filtered out) or the record
Extract(tx, sig, token) ==
    IF ~tx.meta \/ ~tx.hasStatus THEN <<>>
    ELSE IF tx.blockTime = 0 \/ tx.status = "none" THEN <<>>
    ELSE IF tx.ninstr # 1 THEN <<>>
    ELSE IF ~tx.parsed THEN <<>>
    ELSE LET am == IF token = NoToken THEN NativeAmounts(tx) ELSE TokenAmounts(tx, token) IN
         IF am = <<>> THEN <<>>
         ELSE IF IsNegative(am[1].pre, am[1].post) THEN <<>>
         ELSE <<[signature |-> sig,
                 amount |-> [num |-> am[1].post - am[1].pre, den |-> am[1].den],
                 timestamp |-> tx.blockTime,
                 error |-> tx.err,
                 status |-> tx.status,
                 confirmations |-> Confirmations(tx.status, tx.confs)]>>

\* ---- the transactions the ledger may answer with

\* one entry per account key that holds a token balance
TokenBalances(keys, ui) ==
    IF ui = Absent THEN <<>>
    ELSE IF FindIndex(keys, Ata) = NotFound THEN <<>>
    ELSE <<[accountIndex |-> 1, ui |-> 7], [accountIndex |-> FindIndex(keys, Ata), ui |-> ui]>>

\* balances by account index: the payer "X" pays, the others hold nat
Balances(keys, nat, payer) ==
    [n \in 1..Len(keys) |-> IF keys[n] = "X" THEN payer ELSE nat + n]

MakeTx(shape, lvl, confs, prog, dest, src, keys, nat, tok) ==
    [meta |-> shape # "noMeta", hasStatus |-> shape # "noStatus",
     blockTime |-> IF shape = "noTime" THEN 0 ELSE 1700,
     status |-> IF shape = "noLevel" THEN "none" ELSE lvl,
     confs |-> confs, err |-> IF shape = "failed" THEN "err" ELSE "none",
     ninstr |-> IF shape = "noInstr" THEN 0 ELSE IF shape = "twoInstr" THEN 2 ELSE 1,
     parsed |-> shape # "unparsed",
     program |-> prog[1], type |-> prog[2], dest |-> dest, src |-> src, keys |-> keys,
     preBalances |-> Balances(keys, nat[1], 50),
     postBalances |-> Balances(keys, nat[2], 40),
     preTokenBalances |-> TokenBalances(keys, tok[1]),
     postTokenBalances |-> TokenBalances(keys, tok[2])]

Shapes == {"ok", "failed", "noMeta", "noStatus", "noTime", "noLevel", "noInstr",
           "twoInstr", "unparsed"}
LevelsSeen == {"processed", "confirmed", "finalized"}
Counts == {NoCount, 0, 5, MAX_CONFIRMATIONS}
Programs == {<<"system", "transfer">>, <<"system", "other">>, <<"spl-token", "transfer">>,
             <<"spl-token", "transferChecked">>, <<"other", "transfer">>}
KeyLists == {<<"X", Recipient>>, <<"X", Ata>>, <<"X", Ata, Recipient>>, <<"X">>}
NativePairs == {<<10, 12>>, <<12, 10>>, <<10, 10>>}
TokenPairs == {<<0, 3>>, <<3, 0>>, <<Absent, 3>>, <<0, NoUi>>}

BaseTx == MakeTx("ok", "confirmed", 5, <<"system", "transfer">>, Recipient, "X",
                 <<"X", Recipient>>, <<10, 12>>, <<0, 3>>)

\* well-shaped transactions in every combination of the fields the extraction
\* branches on, and each malformed shape
TxSpace ==
    {MakeTx(sh, "confirmed", 5, <<"system", "transfer">>, Recipient, "X",
            <<"X", Recipient>>, <<10, 12>>, <<0, 3>>) : sh \in Shapes}
    \cup
    {MakeTx("ok", lc[1], lc[2], pr, ds[1], ds[2], ks, np, tp) :
        lc \in LevelsSeen \X Counts, pr \in Programs, ds \in Accounts \X Accounts,
        ks \in KeyLists, np \in NativePairs, tp \in TokenPairs}

\* the callback is not running
NoInput == <<>>

ExtractIdle ==
    /\ xin = NoInput
    /\ xdone = FALSE
    /\ xout = <<>>

InitExtract ==
    /\ xin \in [tx : TxSpace, token : {NoToken, Ata}]
    /\ xdone = FALSE
    /\ xout = <<>>

ExtractOne ==
    /\ ~xdone
    /\ xdone' = TRUE
    /\ xout' = Extract(xin.tx, 1, xin.token)
    /\ UNCHANGED <<notExtract, xin>>

NextExtract == ExtractOne

-----------------------------------------------------------------------------
\* TransactionsProvider: Stage A (signatures) and Stage B (transactions)

Sigs == 1..MaxSigs
\* the ordered lists of distinct signatures
SigLists ==
    {q \in UNION {[1..n -> Sigs] : n \in 0..MaxSigs} :
        \A a, b \in 1..Len(q) : a # b => q[a] # q[b]}

\* arraysEqual(prevSignatures, nextSignatures)
ArraysEqual(a, b) == Len(a) = Len(b) /\ \A n \in 1..Len(a) : a[n] = b[n]

\* the updater of setSignatures returns prevSignatures itself (React then
\* bails out) or the new array
KeepsPrevNever(prev, next) == FALSE
KeepsPrev(prev, next) == ArraysEqual(prev, next)

\* the ledger's transaction of a signature: native transfers to the recipient
\* and token transfers to its token account alternate
NativeTx == MakeTx("ok", "confirmed", 5, <<"system", "transfer">>, Recipient, "X",
                   <<"X", Recipient>>, <<10, 12>>, <<Absent, Absent>>)
TokenTx == MakeTx("ok", "finalized", NoCount, <<"spl-token", "transfer">>, Ata, "X",
                  <<"X", Ata, Recipient>>, <<10, 10>>, <<0, 3>>)
TxOf(sig) == IF sig % 2 = 1 THEN NativeTx ELSE TokenTx

\* getSignaturesForAddress(associatedToken || recipient): the signatures of
\* the transactions that mention the address, most recent first
WatchedBy(tok) == IF tok = NoToken THEN Recipient ELSE tok
History(acct) ==
    SelectSeq(chain, LAMBDA s : \E n \in 1..Len(TxOf(s).keys) : TxOf(s).keys[n] = acct)

\* Stage B's map/filter over its snapshot of the signatures
RECURSIVE ExtractAll(_, _)
ExtractAll(sigs, tok) ==
    IF sigs = <<>> THEN <<>>
    ELSE Extract(TxOf(Head(sigs)), Head(sigs), tok) \o ExtractAll(Tail(sigs), tok)

\* the effect body: changed = false, currentDelay = 1000, void run()
NewLoop(stage, sigs, tok) ==
    [stage |-> stage, changed |-> FALSE, delay |-> BaseDelay, streak |-> 0,
     sigs |-> sigs, token |-> tok, call |-> BoStart(LoopAttempts, BaseDelay)]

\* currentDelay = success ? 1000 : Math.min(currentDelay * 2, 30000)
NextDelayUncapped(success, d) == IF success THEN BaseDelay ELSE d * 2
NextDelay(success, d) == IF success THEN BaseDelay ELSE Min(d * 2, CapDelay)

\* if (!changed) setTimeout(run, currentDelay)
RescheduleOnSuccessOnly(l, success) == success /\ ~l.changed
Reschedule(l, success) == ~l.changed

\* exponentialBackoff returned c.result: the delay is updated and the outer
\* timer is pending; the locals of the finished call are gone
AfterCall(l, c) ==
    [l EXCEPT !.call = [c EXCEPT !.i = 0, !.init = 0],
              !.delay = NextDelay(c.result, l.delay),
              !.streak = IF c.result THEN 0 ELSE Min(l.streak + 1, MaxStreak)]

\* instance l with its call advanced to c; it is dropped when run() returns
\* without a timer
Settled(l, c) ==
    IF c.pc # "done" THEN {[l EXCEPT !.call = c]}
    ELSE IF Reschedule(l, c.result) THEN {AfterCall(l, c)}
    ELSE {}

\* if (changed) return, after the await inside fn
DiscardsNever(l) == FALSE
Discards(l) == l.changed

\* cleanup of an effect: changed = true
TornDown(ls) == {[l EXCEPT !.changed = TRUE] : l \in ls}
Live(stage) == {l \in loops : l.stage = stage /\ ~l.changed}

ReconIdle ==
    /\ signatures = <<>>
    /\ sigId = 0
    /\ transactions = <<>>
    /\ loading = FALSE
    /\ loops = {}
    /\ tmounted = FALSE
    /\ splToken = FALSE
    /\ associatedToken = NoToken
    /\ deriving = FALSE
    /\ chain = <<>>
    /\ faults = 0

\* after mount: Stage A's run() has invoked fn (setLoading(true), RPC sent);
\* Stage B's effect returned early on the empty list; with a token configured
\* getAssociatedTokenAddress is pending
InitMounted ==
    /\ signatures = <<>>
    /\ sigId = 0
    /\ transactions = <<>>
    /\ loading = TRUE
    /\ loops = {NewLoop("A", <<>>, NoToken)}
    /\ tmounted = TRUE
    /\ associatedToken = NoToken
    /\ deriving = splToken

InitLoops ==
    /\ splToken = FALSE
    /\ InitMounted
    /\ chain \in SigLists
    /\ faults = Unlimited

InitRecon ==
    /\ splToken \in BOOLEAN
    /\ InitMounted
    /\ chain = <<>>
    /\ faults = MaxFaults

\* setLoading(true) at the head of fn
LoadingOnCall == IF tmounted THEN TRUE ELSE loading

\* setTimeout(run, currentDelay) fires: run() calls exponentialBackoff, which
\* invokes fn
LoopTimer(l) ==
    /\ l \in loops /\ l.call.pc = "done"
    /\ loops' = (loops \ {l}) \cup {[l EXCEPT !.call = BoStart(LoopAttempts, l.delay)]}
    /\ loading' = LoadingOnCall
    /\ UNCHANGED <<notRecon, signatures, sigId, transactions, tmounted, splToken, associatedToken,
                   deriving, chain, faults>>

\* the delay inside exponentialBackoff elapsed: fn is invoked again
LoopWake(l) ==
    /\ l \in loops /\ l.call.pc = "sleep"
    /\ loops' = (loops \ {l}) \cup {[l EXCEPT !.call = BoWake(l.call)]}
    /\ loading' = LoadingOnCall
    /\ UNCHANGED <<notRecon, signatures, sigId, transactions, tmounted, splToken, associatedToken,
                   deriving, chain, faults>>

\* the RPC call of fn throws: the catch of exponentialBackoff
LoopFnRejects(l) ==
    /\ l \in loops /\ l.call.pc = "fn"
    /\ faults # 0
    /\ faults' = IF faults = Unlimited THEN faults ELSE faults - 1
    /\ loops' = (loops \ {l}) \cup Settled(l, BoReject(l.call))
    /\ UNCHANGED <<notRecon, signatures, sigId, transactions, loading, tmounted, splToken,
                   associatedToken, deriving, chain>>

\* Stage A's fn: getSignaturesForAddress returned the account's list
StageAResolves(l) ==
    /\ l \in loops /\ l.call.pc = "fn" /\ l.stage = "A"
    /\ LET fetched == History(WatchedBy(l.token)) IN
       /\ IF Discards(l)
          THEN /\ loops' = (loops \ {l}) \cup Settled(l, BoResolve(l.call))
               /\ UNCHANGED <<signatures, sigId, loading>>
          ELSE /\ signatures' = IF KeepsPrev(signatures, fetched) THEN signatures ELSE fetched
               /\ sigId' = IF KeepsPrev(signatures, fetched) THEN sigId ELSE sigId + 1
               \* Stage B's effect depends on signatures: on a new array its
               \* cleanup runs, then a new run unless the list is empty
               /\ IF sigId' = sigId
                  THEN /\ loops' = (loops \ {l}) \cup Settled(l, BoResolve(l.call))
                       /\ loading' = FALSE
                  ELSE /\ loops' = ((loops \ ({l} \cup Live("B")))
                                     \cup Settled(l, BoResolve(l.call))
                                     \cup TornDown(Live("B"))
                                     \cup (IF signatures' = <<>> THEN {}
                                           ELSE {NewLoop("B", signatures', associatedToken)}))
                       /\ loading' = (signatures' # <<>>)
    /\ Cardinality(loops') <= MaxLoops
    /\ UNCHANGED <<notRecon, transactions, tmounted, splToken, associatedToken, deriving, chain,
                   faults>>

\* Stage B's fn: getParsedTransactions and getSignatureStatuses returned
StageBResolves(l) ==
    /\ l \in loops /\ l.call.pc = "fn" /\ l.stage = "B"
    /\ IF Discards(l)
       THEN UNCHANGED <<transactions, loading>>
       ELSE /\ transactions' = ExtractAll(l.sigs, l.token)
            /\ loading' = FALSE
    /\ loops' = (loops \ {l}) \cup Settled(l, BoResolve(l.call))
    /\ UNCHANGED <<notRecon, signatures, sigId, tmounted, splToken, associatedToken, deriving,
                   chain, faults>>

\* a dependency of both polling effects changed to tok: the cleanups run
\* (changed = true, setSignatures([])), then the effects: Stage A starts anew,
\* Stage B starts on the list of this render and is cleaned up again when the
\* emptied list is rendered
Restarted(tok) ==
    /\ loops' = TornDown(loops)
                 \cup {NewLoop("A", <<>>, tok)}
                 \cup (IF signatures = <<>> THEN {}
                       ELSE TornDown({NewLoop("B", signatures, tok)}))
    /\ Cardinality(loops') <= MaxLoops
    /\ signatures' = <<>>
    /\ sigId' = sigId + 1
    /\ loading' = TRUE

\* getAssociatedTokenAddress resolved: setAssociatedToken(associatedToken)
ResolveToken ==
    /\ tmounted /\ deriving
    /\ deriving' = FALSE
    /\ associatedToken' = Ata
    /\ Restarted(Ata)
    /\ UNCHANGED <<notRecon, transactions, tmounted, splToken, chain, faults>>

\* useConnection() hands out another connection (counted against the budget
\* of disturbances)
ConnectionChanges ==
    /\ tmounted /\ faults > 0
    /\ faults' = faults - 1
    /\ Restarted(associatedToken)
    /\ UNCHANGED <<notRecon, transactions, tmounted, splToken, associatedToken, deriving,
                   chain>>

\* the ledger records one more transaction
NewTransaction ==
    /\ Len(chain) < MaxSigs
    /\ chain' = <<Len(chain) + 1>> \o chain
    /\ UNCHANGED <<notRecon, signatures, sigId, transactions, loading, loops, tmounted,
                   splToken, associatedToken, deriving, faults>>

\* unmount: the cleanups run (changed = true); the state cells are gone
UnmountTransactions ==
    /\ tmounted
    /\ tmounted' = FALSE
    /\ deriving' = FALSE
    /\ loops' = TornDown(loops)
    /\ UNCHANGED <<notRecon, signatures, sigId, transactions, loading, splToken, associatedToken,
                   chain, faults>>

NextLoops ==
    \/ \E l \in loops : LoopTimer(l)
    \/ \E l \in loops : LoopWake(l)
    \/ \E l \in loops : LoopFnRejects(l)
    \/ \E l \in loops : StageAResolves(l)
    \/ \E l \in loops : StageBResolves(l)
    \/ UnmountTransactions

NextRecon ==
    \/ \E l \in loops : LoopTimer(l)
    \/ \E l \in loops : LoopWake(l)
    \/ \E l \in loops : LoopFnRejects(l)
    \/ \E l \in loops : StageAResolves(l)
    \/ \E l \in loops : StageBResolves(l)
    \/ ResolveToken
    \/ ConnectionChanges
    \/ NewTransaction

\* a step of the live loop of a stage: its timers fire, its RPC calls settle
LiveStep(stage) ==
    \E l \in Live(stage) :
        LoopTimer(l) \/ LoopWake(l) \/ LoopFnRejects(l) \/ StageAResolves(l) \/ StageBResolves(l)

FairLoops == WF_vars(LiveStep("A")) /\ WF_vars(LiveStep("B"))

-----------------------------------------------------------------------------
\* Specifications

\* the payment session alone: nothing else is running
StartSession == InitSession /\ BackoffIdle /\ ReconIdle /\ ExtractIdle
StartBackoff == InitBackoff /\ SessionIdle /\ ReconIdle /\ ExtractIdle
StartLoops == InitLoops /\ SessionIdle /\ BackoffIdle /\ ExtractIdle
StartRecon == InitRecon /\ SessionIdle /\ BackoffIdle /\ ExtractIdle
StartExtract == InitExtract /\ SessionIdle /\ BackoffIdle /\ ReconIdle

\* the mounted transactions provider with a token account to resolve, a
\* growing ledger and a bounded number of RPC failures and connection changes
SpecRecon == StartRecon /\ [][NextRecon]_vars

\* the extraction applied to one transaction
SpecExtract == StartExtract /\ [][NextExtract]_vars

SpecSession == StartSession /\ [][NextSession]_vars

\* fn settles and timers fire
SpecBackoff ==
    /\ StartBackoff
    /\ [][NextBackoff]_vars
    /\ WF_vars(NextBackoff)

\* Timers fire and RPC calls settle: the interval while it is set, each
\* checkTransaction once started.
FairSession ==
    /\ WF_vars(Tick)
    /\ \A k \in Keys : WF_vars(FindNotFound(k) \/ FindFound(k))
    /\ \A k \in Keys : WF_vars(\E cs \in LevelSet \cup {"none"} : StatusReturns(k, cs))

SpecSessionLive ==
    StartSession /\ [][NextWatch]_vars /\ FairSession

\* The two polling loops over an account whose history does not change, with
\* an RPC channel that may fail any number of times.
SpecLoops ==
    /\ StartLoops
    /\ [][NextLoops]_vars
    /\ FairLoops

-----------------------------------------------------------------------------
\* Claims about the payment session

\* C1: the watcher sets Confirmed only in a poll whose fetched confirmation
\* status is "confirmed" or "finalized"; a poll that fetched no status or a
\* lower level leaves the status and the running interval as they are.
C1_ConfirmedOnlyAtConfirmedLevel ==
    [][ /\ (status' = "Confirmed" /\ status # "Confirmed")
           => (ev'.op = "status" /\ ev'.tx \in {"confirmed", "finalized"})
        /\ (ev'.op = "status" /\ ev'.tx \notin {"confirmed", "finalized"})
           => (status' = status /\ interval' = interval) ]_vars

C1_Witness ==
    /\ ev.op = "status" /\ ev.tx = "confirmed" /\ ev.from = "Pending"
    /\ status = "Confirmed" /\ ev.ref = reference

\* C2: generate() changes the session only when status = New and reference is
\* unset: then reference becomes a fresh key and status Pending; in any other
\* state amount, memo, reference and status are unchanged.
C2_GenerateGuarded ==
    [][ ev'.op = "generate" =>
          IF status = "New" /\ reference = NoKey
          THEN /\ reference' # NoKey /\ reference' = nextKey
               /\ status' = "Pending"
               /\ amount' = amount /\ memo' = memo
          ELSE /\ amount' = amount /\ memo' = memo
               /\ reference' = reference /\ status' = status ]_vars

C2_Witness ==
    /\ ev.op = "generate" /\ ev.from = "New"
    /\ status = "Pending" /\ reference = 2

\* C3: once the watch of a key has stopped (reset, unmount), no poll callback
\* started for that key changes the session status.
C3_StoppedWatchIsSilent ==
    [][ (ev'.op = "status" /\ ev'.ref # interval) => status' = status ]_vars

\* C4: reference is set if and only if status is not New.
C4_ReferenceIffNotNew == (reference # NoKey) <=> (status # "New")

\* C5: reset() in any state yields amount, memo, reference unset and status New.
C5_ResetClearsAll ==
    ev.op = "reset" =>
        /\ amount = NoAmount /\ memo = NoMemo
        /\ reference = NoKey /\ status = "New"

C5_Witness ==
    /\ ev.op = "reset" /\ ev.from = "Confirmed"
    /\ amount = NoAmount /\ memo = NoMemo /\ reference = NoKey /\ status = "New"

\* C6: a Pending session whose transaction is at "confirmed" or "finalized"
\* eventually becomes Confirmed unless it is reset or unmounted, and a
\* Confirmed session leaves Confirmed only by reset().
C6_EventuallyConfirmed ==
    /\ [](( /\ status = "Pending" /\ mounted /\ reference # NoKey
            /\ ledger[reference] \in {"confirmed", "finalized"} )
          => <>(status = "Confirmed" \/ ev.op = "reset" \/ ~mounted))
    /\ [][ (status = "Confirmed" /\ status' # "Confirmed") => ev'.op = "reset" ]_vars

C6_Witness ==
    /\ status = "Confirmed" /\ mounted /\ reference # NoKey
    /\ ledger[reference] = "finalized" /\ interval = NoKey
    /\ InFlight(polls) = 0

\* C7: while status is Pending or Confirmed only reset() changes amount or memo.
C7_AmountMemoFrozenAfterNew ==
    [][ (status # "New" /\ (amount' # amount \/ memo' # memo)) => ev'.op = "reset" ]_vars

-----------------------------------------------------------------------------
\* Claims about exponentialBackoff

Failures(outs) == {n \in 1..Len(outs) : ~outs[n]}

\* C8 (safety part): a call invokes fn at most maxRetries times, returns true
\* right after the first invocation that resolves and false exactly when all
\* maxRetries invocations reject, and awaits initialDelay * 2^i after the i-th
\* rejected invocation except after the maxRetries-th one.
C8_Safety ==
    /\ Len(boOutcomes) <= bo.max
    /\ \A n \in 1..(Len(boOutcomes) - 1) : ~boOutcomes[n]
    /\ bo.pc \in {"idle", "fn"} =>
          Len(boOutcomes) = bo.i /\ Len(boSlept) = bo.i
    /\ bo.pc = "sleep" =>
          Len(boOutcomes) = bo.i + 1 /\ Len(boSlept) = bo.i + 1
    /\ bo.pc = "done" =>
          /\ bo.result <=> (boOutcomes # <<>> /\ boOutcomes[Len(boOutcomes)])
          /\ ~bo.result <=> (Len(boOutcomes) = bo.max /\ Failures(boOutcomes) = 1..bo.max)
          /\ Len(boSlept) = Len(boOutcomes) - (IF bo.max = 0 THEN 0 ELSE 1)
    /\ \A n \in 1..Len(boSlept) : boSlept[n] = bo.init * Pow2(n - 1)

\* C8: the contract above holds throughout the call, and the call returns.
C8_BackoffContract == []C8_Safety /\ <>(bo.pc = "done")

C8_Witness ==
    /\ bo.pc = "done" /\ ~bo.result /\ bo.max = 3 /\ bo.init = 2000
    /\ boSlept = <<2000, 4000>> /\ Len(boOutcomes) = 3

-----------------------------------------------------------------------------
\* Claims about the polling loops

\* the instances of a stage whose outer timer is pending
Waiting(stage) == {l \in loops : l.stage = stage /\ l.call.pc = "done"}
Stages == {"A", "B"}

\* C9 as stated: after the k-th exhausted call in a row the outer delay is
\* the k-th element of 1000, 2000, 4000, 8000, 16000, 30000, 30000, ...; after
\* a successful call it is 1000.
C9_OuterDelaysAsStated ==
    \A st \in Stages : \A l \in Waiting(st) :
        l.delay = IF l.streak = 0 THEN 1000
                  ELSE Min(1000 * Pow2(l.streak - 1), 30000)

\* C9 as amended: after the k-th exhausted call in a row the outer delay is
\* min(1000 * 2^k, 30000), i.e. 2000, 4000, 8000, 16000, 30000, 30000, ...;
\* after a successful call it is 1000.
C9_OuterDelays ==
    \A st \in Stages : \A l \in Waiting(st) :
        l.delay = IF l.streak = 0 THEN 1000
                  ELSE Min(1000 * Pow2(l.streak), 30000)

C9_Witness ==
    \E a \in Waiting("A"), b \in Waiting("B") :
        /\ a.streak = 6 /\ a.delay = 30000
        /\ b.streak = 4 /\ b.delay = 16000

\* C10: while the provider is mounted Stage A has a live loop, and so has
\* Stage B while the signature list is non-empty; a live loop whose scheduler
\* call has returned (success or exhaustion) issues another poll unless it is
\* torn down.
C10_LoopKeepsPolling ==
    /\ [](tmounted => /\ Live("A") # {}
                      /\ (signatures # <<>> => Live("B") # {}))
    /\ \A st \in Stages :
          []((Live(st) \cap Waiting(st) # {})
              => <>((\E l \in Live(st) : l.call.pc = "fn") \/ ~tmounted))

C10_Witness ==
    \E l \in Live("B") : l.call.pc = "fn" /\ l.streak = 2 /\ l.call.i = 0

-----------------------------------------------------------------------------
\* Claims about the extraction

\* pre and post amount of the watched account as the ledger reports them;
\* -1 where the ledger reports none
ReportedAt(tx, token, bals, toks) ==
    LET idx == FindIndex(tx.keys, WatchedBy(token)) IN
    IF idx = NotFound THEN -1
    ELSE IF token = NoToken THEN bals[idx]
    ELSE IF \E n \in 1..Len(toks) : toks[n].accountIndex = idx
         THEN (CHOOSE e \in {toks[n] : n \in 1..Len(toks)} : e.accountIndex = idx).ui
         ELSE -1

\* C12: a record has amount >= 0 and comes from a transfer whose source differs
\* from its destination; a transaction whose post-balance is below its
\* pre-balance for the watched account, or whose source is the watched
\* account, produces no record, in native and in token mode.
C12_NonNegativeNoSelfTransfer ==
    xdone =>
        /\ xout # <<>> =>
              /\ xout[1].amount.num >= 0
              /\ xin.tx.src # xin.tx.dest
              /\ xin.tx.dest = WatchedBy(xin.token)
        /\ ( \/ xin.tx.src = WatchedBy(xin.token)
             \/ ReportedAt(xin.tx, xin.token, xin.tx.postBalances, xin.tx.postTokenBalances)
                  < ReportedAt(xin.tx, xin.token, xin.tx.preBalances, xin.tx.preTokenBalances) )
            => xout = <<>>

C12_Witness ==
    /\ xdone /\ xout # <<>>
    /\ xin.token = Ata /\ xout[1].amount = [num |-> 3, den |-> 1]

\* C14: a record's confirmations is MAX_CONFIRMATIONS when the ledger status is
\* "finalized", and otherwise the raw count the ledger supplies, 0 when it
\* supplies none.
C14_Confirmations ==
    (xdone /\ xout # <<>>) =>
        xout[1].confirmations =
            IF xin.tx.status = "finalized" THEN 32
            ELSE IF xin.tx.confs = -1 THEN 0 ELSE xin.tx.confs

C14_Witness ==
    /\ xdone /\ xout # <<>>
    /\ xin.tx.status = "finalized" /\ xin.tx.confs = 5 /\ xout[1].confirmations = 32

-----------------------------------------------------------------------------
\* Claims about the transactions provider

\* a is b with some elements left out
RECURSIVE IsSubseq(_, _)
IsSubseq(a, b) ==
    IF a = <<>> THEN TRUE
    ELSE IF b = <<>> THEN FALSE
    ELSE IF Head(a) = Head(b) THEN IsSubseq(Tail(a), Tail(b))
    ELSE IsSubseq(a, Tail(b))

SigsOf(recs) == [n \in 1..Len(recs) |-> recs[n].signature]
StageB(ls) == {l \in ls : l.stage = "B"}
\* this step is the successful return of the call of instance l: exponentialBackoff
\* returned true and run() set its timer
Resolved(l) ==
    /\ l \in loops /\ l.call.pc = "fn"
    /\ l \notin loops'
    /\ AfterCall(l, BoResolve(l.call)) \in loops'
\* this step is a step of instance l alone
StepOf(l) == l \in loops /\ l \notin loops' /\ (loops \ {l}) \subseteq loops'

\* C11: a successful Stage A poll replaces the stored signature list only when
\* the fetched ordered sequence differs from the stored one; a poll that
\* returns the same ordered contents leaves the list (the array itself)
\* unchanged, does not restart Stage B and starts no Stage B fetch.
C11_EqualListKept ==
    [][\A l \in Live("A") : Resolved(l) =>
         IF signatures = History(WatchedBy(l.token))
         THEN /\ signatures' = signatures /\ sigId' = sigId
              /\ StageB(loops') = StageB(loops)
         ELSE signatures' # signatures /\ sigId' # sigId]_vars

\* Stage A has returned an unchanged list of two while Stage B's call is in
\* flight: Stage A cleared the loading flag and Stage B was not restarted
C11_Witness ==
    /\ tmounted /\ ~loading
    /\ Len(signatures) = 2 /\ signatures = History(WatchedBy(associatedToken))
    /\ \E a \in Live("A") : a.call.pc = "done" /\ a.call.result
    /\ \E b \in Live("B") : b.call.pc = "fn" /\ b.sigs = signatures

\* C13: with a token configured every published record was extracted from a
\* token transfer to the resolved token account, and no native transfer to
\* the recipient produces a record, also before the token account is resolved.
C13_TokenModeOnly ==
    splToken =>
        \A n \in 1..Len(transactions) :
            /\ TxOf(transactions[n].signature).program = "spl-token"
            /\ TxOf(transactions[n].signature).dest = Ata

\* C15: the loading flag is true while a Stage A or Stage B ledger call is in
\* flight and false once none is.
C15_LoadingIffInFlight ==
    tmounted => (loading <=> \E l \in loops : l.call.pc = "fn")

\* C18: a torn-down loop has no further effect: its in-flight result changes
\* neither list, and its pending wake issues no ledger call and changes no
\* state, the loading flag included.
C18_TornDownLoopIsInert ==
    [][\A l \in loops : (l.changed /\ StepOf(l)) =>
          /\ \A m \in loops' \ loops : m.call.pc # "fn"
          /\ signatures' = signatures
          /\ transactions' = transactions
          /\ loading' = loading]_vars

\* C19 as stated: every suspension of a polling loop, the outer delay and each
\* retry sleep inside a scheduler call, lasts at most 30000 ms.
C19_SuspensionsCappedAsStated ==
    \A l \in loops :
        /\ l.call.pc = "done" => l.delay <= 30000
        /\ l.call.pc = "sleep" => RetryDelay(l.call.init, l.call.i) <= 30000

\* C19 as amended: the outer delay between polls is at most 30000 ms; a retry
\* sleep inside a scheduler call is the current outer delay times 2^i for a
\* retry index i <= 3, so at most 240000 ms.
C19_SuspensionsCapped ==
    \A l \in loops :
        /\ l.call.pc = "done" => l.delay <= 30000
        /\ l.call.pc = "sleep" =>
              /\ l.call.i <= 3
              /\ l.call.init = l.delay /\ l.delay <= 30000
              /\ RetryDelay(l.call.init, l.call.i) <= 240000

C19_Witness ==
    \E l \in loops :
        l.call.pc = "sleep" /\ l.delay = 30000 /\ RetryDelay(l.call.init, l.call.i) = 240000

-----------------------------------------------------------------------------
\* Claims about the watcher's polls

\* C16: a watcher poll that ends in an error changes no session state and
\* does not stop the watch: after not-found nothing is logged, after any other
\* error the error is logged; a Pending session stays Pending with its
\* interval timer armed.
C16_ErrorLeavesSession ==
    [][ev'.op \in {"notFound", "error"} =>
          /\ <<amount, memo, reference, status>>' = <<amount, memo, reference, status>>
          /\ interval' = interval
          /\ (mounted /\ status = "Pending") => (status' = "Pending" /\ interval' = reference')
          /\ ev'.log = (ev'.op = "error")]_vars

C16_Witness ==
    /\ ev.op = "error" /\ ev.log
    /\ mounted /\ status = "Pending" /\ interval = reference /\ reference # NoKey

\* C17: within a polling loop polls never overlap; for the session watcher:
\* at most one checkTransaction of a key is in flight at a time (a run of
\* Stage A or Stage B holds one call at a time by construction).
C17_PollsNeverOverlap ==
    \A k \in Keys : polls[k].find + polls[k].status <= 1

====
